---------------------------- MODULE Spec2Model ----------------------------
(***************************************************************************)
(* Model of cocultures.ipynb: interpolate_fluxes (medium interpolation)    *)
(* and calc_kos (single-member knockout analysis of a community).          *)
(*                                                                         *)
(* Reals are modelled as integers: an interpolation factor n is held in    *)
(* tenths (Scale stands for 1.0) and an interpolated flux in tenths of the *)
(* input unit.  A pandas cell is either NaN or a number; it is modelled as *)
(* the empty sequence (NaN) or a one-element sequence <<v>>.               *)
(* A Python str is a sequence of one-character strings.                    *)
(***************************************************************************)
EXTENDS Integers, Sequences, FiniteSets

VARIABLES
    wd,             \* medium_1: first diet, a sequence of <<reaction, flux>>
    ag,             \* medium_2: second diet
    n,              \* interpolation factor, in tenths
    interp,         \* the frame of the interpolate_fluxes call
    medium_series,  \* the medium handed to calc_kos (<<>> while unassigned)
    agora_df,       \* the model database: index label -> id cell
    indices,        \* the community specification, a list of index labels
    solver,         \* what micom does for this (medium, community)
    kos             \* the frame and return value of calc_kos

vars == <<wd, ag, n, interp, medium_series, agora_df, indices, solver, kos>>

----------------------------------------------------------------------------
(* Bounds of the model *)

MaxLen == 2       \* longest input flux profile
DbSize == 3       \* rows of the model database
MaxN == 3         \* largest community
MaxUndef == 2     \* most undefined off-diagonal cells the solver reports
MaxCalls == 2     \* calc_kos calls on the same inputs

(* Scale is the factor 1.0 of `0 <= n <= 1`, in tenths. *)
Scale == 10
(* [np.nan]*2 : the length of the fallback's kept_relative_change list. *)
FallbackLen == 2

Rxns == {"R1", "R2"}
Fluxes == {1, 2}
Factors == {0 - 1, 0, 3, 5, Scale, Scale + 1}

NaN == <<>>
Num(v) == <<v>>
Unset == <<>>
Some(x) == <<x>>

Profiles == UNION {[1..k -> Rxns \X Fluxes] : k \in 0..MaxLen}

----------------------------------------------------------------------------
(* interpolate_fluxes *)

\* range check that forgets the upper end
ValidFactorLowerOnly(f) == 0 <= f

\* 0 <= n <= 1
ValidFactor(f) == 0 <= f /\ f <= Scale

\* series.index, as a set
IndexSet(s) == {s[i][1] : i \in DOMAIN s}

RECURSIVE SetToSeq(_)
\* list(a_set): some fixed enumeration of the set
SetToSeq(S) ==
    IF S = {} THEN <<>>
    ELSE LET x == CHOOSE y \in S : TRUE
         IN  <<x>> \o SetToSeq(S \ {x})

\* list(set(medium_1_series.index).union(set(medium_2_series.index)))
AllRxns(s1, s2) == SetToSeq(IndexSet(s1) \cup IndexSet(s2))

RECURSIVE KeepAt(_, _, _)
\* the entries of s, from position i on, that Keep(s, i) selects
KeepAt(s, i, keep) ==
    IF i > Len(s) THEN <<>>
    ELSE (IF keep[i] THEN <<s[i]>> ELSE <<>>) \o KeepAt(s, i + 1, keep)

\* ~index.duplicated(keep='last')
NotDuplicatedLast(s) ==
    [i \in DOMAIN s |-> ~ \E j \in DOMAIN s : j > i /\ s[j][1] = s[i][1]]

\* ~index.duplicated(keep='first')
NotDuplicated(s) ==
    [i \in DOMAIN s |-> ~ \E j \in DOMAIN s : j < i /\ s[j][1] = s[i][1]]

\* series[~series.index.duplicated(keep='first')]
DropDuplicated(s) == KeepAt(s, 1, NotDuplicated(s))

\* series.reindex(index): the value at each label, NaN for a missing label
Reindex(s, idx) ==
    [i \in DOMAIN idx |->
        IF \E j \in DOMAIN s : s[j][1] = idx[i]
        THEN Num(s[CHOOSE j \in DOMAIN s : s[j][1] = idx[i]][2])
        ELSE NaN]

\* fillna left out
FillNaSkipped(col) == col

\* column.fillna(0)
FillNa(col) == [i \in DOMAIN col |-> IF col[i] = NaN THEN Num(0) ELSE col[i]]

\* (1 - n) * a + n * b on two cells, in tenths; NaN propagates
Blend(f, a, b) ==
    IF a = NaN \/ b = NaN THEN NaN
    ELSE Num((Scale - f) * a[1] + f * b[1])

\* The body of interpolate_fluxes after the range check: its frame on return
InterpolateBody(m1, m2, f) ==
    LET s1     == m1
        s2     == m2
        rxns   == AllRxns(s1, s2)
        d1     == DropDuplicated(s1)
        d2     == DropDuplicated(s2)
        c1     == FillNa(Reindex(d1, rxns))
        c2     == FillNa(Reindex(d2, rxns))
        flux   == [i \in DOMAIN rxns |-> <<rxns[i], Blend(f, c1[i], c2[i])>>]
    IN  [status            |-> "returned",
         medium_1_series   |-> Some(d1),
         medium_2_series   |-> Some(d2),
         all_rxns          |-> Some(rxns),
         interpolated_flux |-> Some(flux)]

\* The frame before the call, and after a raise at the range check
FrameEmpty(st) ==
    [status            |-> st,
     medium_1_series   |-> Unset,
     medium_2_series   |-> Unset,
     all_rxns          |-> Unset,
     interpolated_flux |-> Unset]

\* interpolate_fluxes(medium_1, medium_2, n)
InterpolateFluxes(m1, m2, f) ==
    IF ~ ValidFactor(f) THEN FrameEmpty("ValueError")
    ELSE InterpolateBody(m1, m2, f)

\* medium_series = interpolate_fluxes(wd, ag, n)
Interpolate ==
    /\ interp.status = "ready"
    /\ interp' = InterpolateFluxes(wd, ag, n)
    /\ medium_series' = IF interp'.status = "returned"
                        THEN interp'.interpolated_flux
                        ELSE medium_series
    /\ UNCHANGED <<wd, ag, n, agora_df, indices, solver, kos>>

----------------------------------------------------------------------------
(* Python strings of the identifiers *)

DigitChar == <<"0", "1", "2", "3", "4", "5", "6", "7", "8", "9">>

\* ord(c) for the characters of an identifier or a label
Ord(c) ==
    IF c = "_" THEN 95
    ELSE 47 + (CHOOSE d \in DOMAIN DigitChar : DigitChar[d] = c)

RECURSIVE IntToStr(_)
\* str(k) for an int k >= 0: its decimal digits
IntToStr(k) ==
    IF k < 10 THEN <<DigitChar[k + 1]>>
    ELSE IntToStr(k \div 10) \o <<DigitChar[(k % 10) + 1]>>

RECURSIVE StrLess(_, _)
\* a < b on Python strings: lexicographic by code point
StrLess(a, b) ==
    IF b = <<>> THEN FALSE
    ELSE IF a = <<>> THEN TRUE
    ELSE IF Head(a) # Head(b) THEN Ord(Head(a)) < Ord(Head(b))
    ELSE StrLess(Tail(a), Tail(b))

\* An id cell of the database: an int or a str
IntCell(k) == [t |-> "int", num |-> k, str |-> <<>>]
StrCell(s) == [t |-> "str", num |-> 0, str |-> s]

\* str(x) applied to an id cell
PyStr(cell) == IF cell.t = "int" THEN StrCell(IntToStr(cell.num)) ELSE cell

\* The identifier of database row i, as a number
IdNum(i) == 7 * i - 4

DbTypes == {"int", "str", "mixed"}

\* The database whose id column holds ints, strs, or both
Database(ty) ==
    [i \in 1..DbSize |->
        IF ty = "int" \/ (ty = "mixed" /\ i % 2 = 1)
        THEN IntCell(IdNum(i))
        ELSE StrCell(IntToStr(IdNum(i)))]

----------------------------------------------------------------------------
(* calc_kos *)

\* agora_df.loc[indices,] : a new frame holding the selected rows, in order
Loc(df, idx) == [i \in 1..Len(idx) |-> df[idx[i]]]

\* tax['id'].apply(str)
ApplyStr(tax) == [i \in DOMAIN tax |-> PyStr(tax[i])]

\* list(tax.id), after the conversion: the members' identifiers as strs
TaxIds(tax) == [i \in DOMAIN tax |-> tax[i].str]

\* the assignment reaches the database (tax a view of agora_df)
AgoraAfterAssignView(df, idx) ==
    [i \in DOMAIN df |->
        IF \E k \in DOMAIN idx : idx[k] = i THEN PyStr(df[i]) ELSE df[i]]

\* agora_df after `tax['id'] = ...`: tax is a copy, the database is untouched
AgoraAfterAssign(df, idx) == df

\* the change the solver reports for member j when member i is removed, in
\* percent; the values are opaque to calc_kos, one distinct number per cell
RelChange(i, j) == IF i = j THEN 0 - 100 ELSE 0 - (10 * i + j)

\* diag=True: the diagonal keeps its value
DiagKept(cell) == cell

\* diag=False: the diagonal is set to NaN
Diag(cell) == NaN

\* com.knockout_taxa(fraction=1.0, method="relative change", diag=False):
\* the wide table, one row per knockout and one column per member
KnockoutTaxa(N, sol) ==
    [i \in 1..N |-> [j \in 1..N |->
        IF i = j THEN Diag(Num(RelChange(i, j)))
        ELSE IF <<i, j>> \in sol.undef THEN NaN
        ELSE Num(RelChange(i, j))]]

\* ko['knockout'] = ko.index; ko.melt(id_vars=["knockout"], var_name="kept",
\* value_name="kept_relative_change"): column by column, row by row
Melt(wide, ids) ==
    LET N == Len(ids)
    IN  [p \in 1..(N * N) |->
            LET r == ((p - 1) % N) + 1
                c == ((p - 1) \div N) + 1
            IN  [knockout |-> ids[r], kept |-> ids[c],
                 kept_relative_change |-> wide[r][c]]]

IsDefined(row) == row.kept_relative_change # NaN

\* dropna left out
DropNaSkipped(rows) == rows

\* ko.dropna()
DropNa(rows) == SelectSeq(rows, IsDefined)

NoneVal == [kind |-> "NoneType", text |-> ""]
PyString(s) == [kind |-> "str", text |-> s]
Exception(msg) == [kind |-> "Exception", text |-> msg]

\* ko['error'] = v : the same value on every row
WithError(rows, v) ==
    [i \in DOMAIN rows |->
        [knockout |-> rows[i].knockout, kept |-> rows[i].kept,
         kept_relative_change |-> rows[i].kept_relative_change,
         error |-> v]]

RECURSIVE Insert(_, _)
Insert(x, s) ==
    IF s = <<>> THEN <<x>>
    ELSE IF StrLess(x, Head(s)) THEN <<x>> \o s
    ELSE <<Head(s)>> \o Insert(x, Tail(s))

RECURSIVE Sorted(_)
\* sorted(list_of_str)
Sorted(s) == IF s = <<>> THEN <<>> ELSE Insert(Head(s), Sorted(Tail(s)))

RECURSIVE Join(_)
\* "_".join(list_of_str)
Join(s) ==
    IF s = <<>> THEN <<>>
    ELSE IF Len(s) = 1 THEN s[1]
    ELSE s[1] \o <<"_">> \o Join(Tail(s))

\* the join without the sort
SampleIDUnsorted(ids) == Join(ids)

\* "_".join(sorted(list(tax.id)))
SampleID(ids) == Join(Sorted(ids))

\* ko['SampleID'] = label
WithSampleID(rows, label) ==
    [i \in DOMAIN rows |->
        [knockout |-> rows[i].knockout, kept |-> rows[i].kept,
         kept_relative_change |-> rows[i].kept_relative_change,
         error |-> rows[i].error, SampleID |-> label]]

\* list(tax.id)[::-1]
Reversed(s) == [i \in DOMAIN s |-> s[Len(s) + 1 - i]]

\* The try block: the community is built and swept, the table reshaped
TryBlock(ids, sol) ==
    IF ~ sol.ok THEN [raised |-> TRUE, e |-> Exception(sol.msg), ko |-> <<>>]
    ELSE [raised |-> FALSE, e |-> NoneVal,
          ko |-> WithError(DropNa(Melt(KnockoutTaxa(Len(ids), sol), ids)),
                           PyString("None"))]

\* The except block: pd.DataFrame of three columns of lengths N, N and 2;
\* pandas raises ValueError when the columns differ in length
ExceptBlock(ids, e) ==
    IF Len(ids) # FallbackLen
    THEN [raised |-> TRUE,
          e |-> Exception("All arrays must be of the same length"),
          ko |-> <<>>]
    ELSE [raised |-> FALSE, e |-> NoneVal,
          ko |-> WithError(
                    [i \in 1..FallbackLen |->
                        [knockout |-> ids[i], kept |-> Reversed(ids)[i],
                         kept_relative_change |-> NaN]],
                    e)]

\* calc_kos(medium_series, agora_df, indices): what it returns or raises
CalcKosResult(medium, df, idx, sol) ==
    LET tax  == ApplyStr(Loc(df, idx))
        ids  == TaxIds(tax)
        try  == TryBlock(ids, sol)
        done == IF try.raised THEN ExceptBlock(ids, try.e) ELSE try
    IN  IF done.raised
        THEN [status |-> "raised", exc |-> done.e, ko |-> <<>>]
        ELSE [status |-> "returned", exc |-> NoneVal,
              ko |-> WithSampleID(done.ko, SampleID(ids))]

\* One call of calc_kos on the current inputs
CalcKos ==
    /\ kos.calls < MaxCalls
    /\ medium_series # Unset
    /\ LET res == CalcKosResult(medium_series[1], agora_df, indices, solver)
       IN  kos' = [calls |-> kos.calls + 1, status |-> res.status,
                   exc |-> res.exc, ko |-> res.ko]
    /\ agora_df' = AgoraAfterAssign(agora_df, indices)
    /\ UNCHANGED <<wd, ag, n, interp, medium_series, indices, solver>>

----------------------------------------------------------------------------
(* Specifications *)

KosIdle == [calls |-> 0, status |-> "none", exc |-> NoneVal, ko |-> <<>>]

OffDiag(N) == {p \in (1..N) \X (1..N) : p[1] # p[2]}

\* What the solver may do for a community of N members
Outcomes(N) ==
    {[ok |-> TRUE, undef |-> u, msg |-> ""] :
        u \in {x \in SUBSET OffDiag(N) : Cardinality(x) <= MaxUndef}}
    \cup {[ok |-> FALSE, undef |-> {}, msg |-> m] :
            m \in {"infeasible", "solver failure"}}

\* Community specifications: lists of distinct index labels
Communities ==
    UNION {{s \in [1..k -> 1..DbSize] :
                \A i, j \in 1..k : i # j => s[i] # s[j]} : k \in 1..MaxN}

\* interpolate_fluxes on two diets and a factor
InitInterp ==
    /\ wd \in Profiles
    /\ ag \in Profiles
    /\ n \in Factors
    /\ interp = FrameEmpty("ready")
    /\ medium_series = Unset
    /\ agora_df = Database("int")
    /\ indices = <<1, 2>>
    /\ solver = [ok |-> TRUE, undef |-> {}, msg |-> ""]
    /\ kos = KosIdle

NextInterp == Interpolate

SpecInterp == InitInterp /\ [][NextInterp]_vars

\* calc_kos on a database, a community and a medium
InitKos ==
    /\ wd = <<>>
    /\ ag = <<>>
    /\ n = 0
    /\ interp = FrameEmpty("ready")
    /\ medium_series = Some(<< <<"R1", Num(50)>> >>)
    /\ \E ty \in DbTypes : agora_df = Database(ty)
    /\ indices \in Communities
    /\ solver \in Outcomes(Len(indices))
    /\ kos = KosIdle

NextKos == CalcKos

SpecKos == InitKos /\ [][NextKos]_vars

----------------------------------------------------------------------------
(* Properties of calc_kos, checked under SpecKos *)

\* The members' identifiers, as strs, in the order the community lists them
Members == [i \in 1..Len(indices) |-> IntToStr(IdNum(indices[i]))]

Called == kos.calls > 0
FailurePath == Called /\ ~ solver.ok
SuccessPath == Called /\ solver.ok

\* C1: for a community of N >= 2 members, when building the community or
\* the knockout sweep raises, calc_kos does not raise: it returns a fallback
\* result.
C1_NoRaiseOnFailure ==
    (FailurePath /\ Len(indices) >= 2)
        => (kos.status = "returned" /\ Len(kos.ko) > 0)

\* C2: on the failure path of a community m1, m2, ... of N >= 2 members the
\* result is exactly the two rows (m1, m2) and (m2, m1), each with
\* kept_relative_change NaN and an error whose text is that of the failure.
C2_FallbackRows ==
    (FailurePath /\ Len(indices) >= 2)
        => /\ kos.status = "returned"
           /\ Len(kos.ko) = 2
           /\ kos.ko[1].knockout = Members[1] /\ kos.ko[1].kept = Members[2]
           /\ kos.ko[2].knockout = Members[2] /\ kos.ko[2].kept = Members[1]
           /\ \A i \in 1..2 :
                /\ kos.ko[i].kept_relative_change = NaN
                /\ kos.ko[i].error.text = solver.msg

\* C3: on the success path every row's error is None, the null value.
C3_ErrorIsNone ==
    SuccessPath => \A i \in DOMAIN kos.ko : kos.ko[i].error = NoneVal

RECURSIVE LabelOfSet(_)
\* The label of a set of identifier numbers: their decimal strings, least
\* first, joined with underscores
LabelOfSet(S) ==
    IF S = {} THEN <<>>
    ELSE LET m == CHOOSE x \in S :
                    \A y \in S \ {x} : StrLess(IntToStr(x), IntToStr(y))
         IN  IF S = {m} THEN IntToStr(m)
             ELSE IntToStr(m) \o <<"_">> \o LabelOfSet(S \ {m})

\* C4: every returned row, on either path, carries the label made of the
\* members' identifiers as strings, sorted and joined with underscores; it
\* depends only on the set of members, not on their order in the community
\* specification nor on whether the database holds them as ints or strs.
C4_Label ==
    kos.status = "returned"
        => LET label == LabelOfSet({IdNum(indices[k]) : k \in DOMAIN indices})
           IN  \A i \in DOMAIN kos.ko : kos.ko[i].SampleID = label

C4_Witness ==
    /\ kos.status = "returned"
    /\ Len(kos.ko) >= 2
    /\ Len(indices) = 3
    /\ agora_df[indices[1]].t = "int"
    /\ agora_df[indices[2]].t = "str"
    /\ StrLess(Members[2], Members[1])

\* C5: a successful call on a community of N >= 2 members returns no row
\* whose knockout equals its kept member.
C5_NoSelfPairs ==
    (SuccessPath /\ Len(indices) >= 2)
        => \A i \in DOMAIN kos.ko : kos.ko[i].knockout # kos.ko[i].kept

C5_Witness ==
    /\ SuccessPath
    /\ Len(indices) = 3
    /\ Len(kos.ko) = 6

\* the rows of the result for the ordered pair (knockout k, kept r)
RowsFor(k, r) ==
    {p \in DOMAIN kos.ko : kos.ko[p].knockout = k /\ kos.ko[p].kept = r}

\* C6: on the success path the result is the reshape of the solver's table:
\* one row, with the cell's value, for every ordered pair of distinct members
\* whose cell is defined, no row for an undefined cell or any other pair, so
\* N*(N-1) rows less the undefined off-diagonal cells.
C6_Reshape ==
    SuccessPath
        => LET N == Len(indices)
               m == Members
               ids == {m[i] : i \in 1..N}
           IN  /\ \A i, j \in 1..N :
                    LET rows == RowsFor(m[i], m[j])
                    IN  IF i # j /\ <<i, j>> \notin solver.undef
                        THEN /\ Cardinality(rows) = 1
                             /\ \A p \in rows :
                                  kos.ko[p].kept_relative_change
                                      = Num(RelChange(i, j))
                        ELSE rows = {}
               /\ \A p \in DOMAIN kos.ko :
                    kos.ko[p].knockout \in ids /\ kos.ko[p].kept \in ids
               /\ Len(kos.ko) = N * (N - 1) - Cardinality(solver.undef)

C6_Witness ==
    /\ SuccessPath
    /\ Len(indices) = 3
    /\ Cardinality(solver.undef) = 2
    /\ Len(kos.ko) = 4

----------------------------------------------------------------------------
(* Properties of interpolate_fluxes, checked under SpecInterp *)

\* the flux a profile lists first for a reaction, 0 when it lists none
FirstValue(profile, rxn) ==
    IF rxn \in IndexSet(profile)
    THEN LET j == CHOOSE k \in DOMAIN profile :
                    /\ profile[k][1] = rxn
                    /\ \A l \in 1..(k - 1) : profile[l][1] # rxn
         IN  profile[j][2]
    ELSE 0

Duplicated(profile) ==
    {profile[i][1] : i \in {k \in DOMAIN profile :
        \E l \in DOMAIN profile : l # k /\ profile[l][1] = profile[k][1]}}

\* C7: with a factor outside [0, 1] the call raises ValueError at once:
\* nothing is extracted from the inputs, no profile is produced, and the
\* inputs and the current medium stay as they were.
C7_InvalidFactor ==
    [][(interp.status = "ready" /\ interp'.status # "ready"
            /\ (n < 0 \/ n > Scale))
          => /\ interp' = FrameEmpty("ValueError")
             /\ wd' = wd /\ ag' = ag
             /\ medium_series' = medium_series]_vars

C7_Witness ==
    /\ interp.status = "ValueError"
    /\ n = Scale + 1
    /\ wd # <<>>
    /\ ag # <<>>

\* C8: for a factor f in [0, 1] the result's identifiers are the union of
\* the two profiles' identifiers and the value at each is (1-f)*a + f*b,
\* a and b the profiles' values there, 0 where a profile lacks it; so f = 0
\* gives the first profile and f = 1 the second, extended by 0.
C8_Affine ==
    (interp.status = "returned")
        => LET out == interp.interpolated_flux[1]
           IN  /\ {out[i][1] : i \in DOMAIN out}
                      = IndexSet(wd) \cup IndexSet(ag)
               /\ \A i \in DOMAIN out :
                    out[i][2] = Num((Scale - n) * FirstValue(wd, out[i][1])
                                      + n * FirstValue(ag, out[i][1]))
               /\ n = 0 => \A i \in DOMAIN out :
                    out[i][2] = Num(Scale * FirstValue(wd, out[i][1]))
               /\ n = Scale => \A i \in DOMAIN out :
                    out[i][2] = Num(Scale * FirstValue(ag, out[i][1]))

C8_Witness ==
    /\ interp.status = "returned"
    /\ n = 5
    /\ wd = << <<"R1", 1>> >>
    /\ ag = << <<"R2", 2>> >>
    /\ IndexSet(interp.interpolated_flux[1]) = {"R1", "R2"}

\* C10: when a profile lists a reaction more than once only its first
\* listing counts, and the result holds that reaction exactly once.
C10_FirstWins ==
    (interp.status = "returned")
        => LET out == interp.interpolated_flux[1]
           IN  \A rxn \in Duplicated(wd) \cup Duplicated(ag) :
                 /\ Cardinality({i \in DOMAIN out : out[i][1] = rxn}) = 1
                 /\ \A i \in DOMAIN out :
                      out[i][1] = rxn =>
                        out[i][2] = Num((Scale - n) * FirstValue(wd, rxn)
                                          + n * FirstValue(ag, rxn))
                 /\ \A i \in DOMAIN interp.medium_1_series[1] :
                      interp.medium_1_series[1][i][1] = rxn =>
                        interp.medium_1_series[1][i][2] = FirstValue(wd, rxn)

C10_Witness ==
    /\ interp.status = "returned"
    /\ wd = << <<"R1", 1>>, <<"R1", 2>> >>
    /\ n = 3
    /\ interp.interpolated_flux[1] = << <<"R1", Num(7)>> >>

====
